---- MODULE Spec2Model ----
(***************************************************************************)
(* ensure_version: a runtime-version guard for Deno.                       *)
(*                                                                         *)
(* src/ensure_version.ts holds two implementations of ensureVersion:       *)
(*   - the simple one (lines 79-136), which looks for upgrades by          *)
(*     scanning synthesized versions (maxMinor / maxPatch);                *)
(*   - the catalog-aware one (lines 236-282), which consults denoVersions, *)
(*     the release list parsed from releases.text.                         *)
(* A process imports one of the two modules and calls ensureVersion.  The  *)
(* function keeps nothing between calls (it writes no variable outside its *)
(* own frame), so a behaviour is the import followed by one call.          *)
(*                                                                         *)
(* Strings are sequences of tokens: a run of digits is one token (its      *)
(* number), and ".", " ", " || ", " - ", the comparator operators and an   *)
(* unparsable word are one token each.  String.split('.') therefore cuts   *)
(* at the "." tokens, exactly as on the characters.                        *)
(***************************************************************************)
EXTENDS Integers, Sequences, FiniteSets, TLC

VARIABLES
    module,        \* which implementation the process imported
    Deno_version,  \* Deno.version: key -> version string
    denoVersions,  \* the release catalog (catalog-aware module only)
    called,        \* whether ensureVersion has been called
    version,       \* first argument of the last call
    logs,          \* second argument of the last call
    result         \* what the last call did

vars == <<module, Deno_version, denoVersions, called, version, logs, result>>

\* ---------------------------------------------------------------- bounds

\* Numeric components of the versions tried run over 0..MaxNum.
MaxNum == 2

\* A release list holds at most MaxReleases headings.
MaxReleases == 2

\* Upper ends of the scans of maxMinor and maxPatch.
MinorScanMax == 100
PatchScanMax == 500

Nums == 0..MaxNum

\* ---------------------------------------------------------------- strings

Num(n) == [k |-> "num", v |-> n]
Tok(s) == [k |-> s, v |-> 0]

DOT == Tok(".")
SP == Tok(" ")
OR == Tok("||")
HY == Tok("-")
JUNK == Tok("?")

\* "a.b.c" and friends
Str1(a) == <<Num(a)>>
Str2(a, b) == <<Num(a), DOT, Num(b)>>
Str3(a, b, c) == <<Num(a), DOT, Num(b), DOT, Num(c)>>
Str4(a, b, c, d) == <<Num(a), DOT, Num(b), DOT, Num(c), DOT, Num(d)>>
StrOf(t) == Str3(t[1], t[2], t[3])

DotPositions(s) == {i \in 1..Len(s) : s[i].k = "."}

\* s.split('.').slice(0, 3).join('.'): everything before the third "."
SplitSlice3Join(s) ==
    LET D == DotPositions(s) IN
    IF Cardinality(D) < 3 THEN s
    ELSE LET third == CHOOSE i \in D : Cardinality({j \in D : j < i}) = 2
         IN  SubSeq(s, 1, third - 1)

\* s.split(sep) for a one-token separator
RECURSIVE SplitOn(_, _)
SplitOn(s, sep) ==
    LET P == {i \in 1..Len(s) : s[i].k = sep} IN
    IF P = {} THEN <<s>>
    ELSE LET i == CHOOSE x \in P : \A y \in P : x <= y
         IN  <<SubSeq(s, 1, i - 1)>> \o SplitOn(SubSeq(s, i + 1, Len(s)), sep)

\* ---------------------------------------------------------------- semver

\* A version triple <<major, minor, patch>>, ordered by major, minor, patch.
Lt(a, b) ==
    \/ a[1] < b[1]
    \/ a[1] = b[1] /\ a[2] < b[2]
    \/ a[1] = b[1] /\ a[2] = b[2] /\ a[3] < b[3]

Le(a, b) == a = b \/ Lt(a, b)

\* new SemVer(s) succeeds: exactly three numeric components
IsVersion(s) ==
    /\ Len(s) = 5
    /\ s[1].k = "num" /\ s[2].k = "." /\ s[3].k = "num"
    /\ s[4].k = "." /\ s[5].k = "num"

ParseVersion(s) == <<s[1].v, s[3].v, s[5].v>>

major(s) == ParseVersion(s)[1]
minor(s) == ParseVersion(s)[2]
patch(s) == ParseVersion(s)[3]

\* A partial version: "a", "a.b" or "a.b.c"
IsPartial(s) ==
    /\ Len(s) \in {1, 3, 5}
    /\ \A i \in 1..Len(s) : IF i % 2 = 1 THEN s[i].k = "num" ELSE s[i].k = "."

PartialLen(s) == (Len(s) + 1) \div 2

\* the lowest version a partial stands for
Floor(s) ==
    <<s[1].v, IF Len(s) >= 3 THEN s[3].v ELSE 0, IF Len(s) >= 5 THEN s[5].v ELSE 0>>

\* the lowest version above everything a partial stands for
Ceil(s) ==
    IF PartialLen(s) = 1 THEN <<s[1].v + 1, 0, 0>>
    ELSE IF PartialLen(s) = 2 THEN <<s[1].v, s[3].v + 1, 0>>
    ELSE <<s[1].v, s[3].v, s[5].v + 1>>

Operators == {">=", "<=", ">", "<", "="}

\* one comparator: an optional operator and a partial version, or nothing
IsComparator(c) ==
    \/ c = <<>>
    \/ IsPartial(c)
    \/ Len(c) >= 2 /\ c[1].k \in Operators /\ IsPartial(Tail(c))

CompSat(v, c) ==
    IF c = <<>> THEN TRUE
    ELSE IF c[1].k = "num" \/ c[1].k = "="
    THEN LET p == IF c[1].k = "=" THEN Tail(c) ELSE c
         IN  Le(Floor(p), v) /\ Lt(v, Ceil(p))
    ELSE LET p == Tail(c) IN
         CASE c[1].k = ">=" -> Le(Floor(p), v)
           [] c[1].k = ">"  -> Le(Ceil(p), v)
           [] c[1].k = "<"  -> Lt(v, Floor(p))
           [] c[1].k = "<=" -> Lt(v, Ceil(p))

\* one alternative of a range: a hyphen range "A - B", or comparators
\* separated by spaces
IsAlternative(a) ==
    IF \E i \in 1..Len(a) : a[i].k = "-"
    THEN LET h == SplitOn(a, "-")
         IN  Len(h) = 2 /\ IsPartial(h[1]) /\ IsPartial(h[2])
    ELSE LET cs == SplitOn(a, " ")
         IN  \A i \in 1..Len(cs) : IsComparator(cs[i])

AltSat(v, a) ==
    IF \E i \in 1..Len(a) : a[i].k = "-"
    THEN LET h == SplitOn(a, "-")
         IN  Le(Floor(h[1]), v) /\ Lt(v, Ceil(h[2]))
    ELSE LET cs == SplitOn(a, " ")
         IN  \A i \in 1..Len(cs) : CompSat(v, cs[i])

\* new Range(r) succeeds
ValidRange(r) ==
    LET alts == SplitOn(r, "||")
    IN  \A i \in 1..Len(alts) : IsAlternative(alts[i])

\* the version triple v is in the range r (r valid)
InRange(v, r) ==
    LET alts == SplitOn(r, "||")
    IN  \E i \in 1..Len(alts) : AltSat(v, alts[i])

\* satisfies(version, range): "yes", "no", or "TypeError" for a range that
\* does not parse
satisfies(v, r) ==
    IF ~IsVersion(v) \/ ~ValidRange(r) THEN "TypeError"
    ELSE IF InRange(ParseVersion(v), r) THEN "yes" ELSE "no"

Null == <<Tok("null")>>

\* maxSatisfying(versions, range): the highest of the versions in the range,
\* null when there is none
RECURSIVE MaxFold(_, _, _, _)
MaxFold(vs, r, lo, hi) ==
    IF lo > hi THEN Null
    ELSE IF lo = hi
    THEN IF InRange(ParseVersion(vs[lo]), r) THEN vs[lo] ELSE Null
    ELSE LET mid == (lo + hi) \div 2
             a == MaxFold(vs, r, lo, mid)
             b == MaxFold(vs, r, mid + 1, hi)
         IN  IF a = Null THEN b
             ELSE IF b = Null THEN a
             ELSE IF Lt(ParseVersion(a), ParseVersion(b)) THEN b ELSE a

maxSatisfying(vs, r) == IF ValidRange(r) THEN MaxFold(vs, r, 1, Len(vs)) ELSE Null

\* ---------------------------------------------------------------- the guard

\* Object.keys(Deno.version), in the order of the for-in loop; the order is
\* the one the documentation of ensureVersion prints Deno.version in
Keys == <<"deno", "typescript", "v8">>

KeySet == {Keys[i] : i \in 1..Len(Keys)}

\* keys a caller may put in the mapping; "node" is no key of Deno.version
AllKeys == KeySet \cup {"node"}

NoKeys == [k \in {} |-> <<>>]

Undefined == [kind |-> "undefined", str |-> <<>>, obj |-> NoKeys]
StringReq(s) == [kind |-> "string", str |-> s, obj |-> NoKeys]
ObjectReq(o) == [kind |-> "object", str |-> <<>>, obj |-> o]

\* the checks before the loop: "TypeError" or "ok"
NoEmptyCheck(v) == IF v.kind = "undefined" THEN "TypeError" ELSE "ok"

Validate(v) ==
    IF v.kind = "undefined" THEN "TypeError"
    ELSE IF v.kind = "object" /\ DOMAIN v.obj = {} THEN "TypeError"
    ELSE "ok"

\* if (typeof version === 'string') version = {deno: version}
Normalize(v) ==
    IF v.kind = "string" THEN [k \in {"deno"} |-> v.str] ELSE v.obj

\* range(min, max): min+1 .. max
range(min, max) == [i \in 1..(max - min) |-> i + min]

maxMinor(originVersion, requiredVersion) ==
    LET originMajor == major(originVersion)
        originMinors == range(minor(originVersion), MinorScanMax)
        originVersions ==
            [i \in 1..Len(originMinors) |-> Str3(originMajor, originMinors[i], 0)]
    IN  maxSatisfying(originVersions, requiredVersion) # Null

maxPatch(originVersion, requiredVersion) ==
    LET originMajor == major(originVersion)
        originMinor == minor(originVersion)
        originPatchs == range(patch(originVersion), PatchScanMax)
        originVersions ==
            [i \in 1..Len(originPatchs) |-> Str3(originMajor, originMinor, originPatchs[i])]
    IN  maxSatisfying(originVersions, requiredVersion) # Null

\* denoVersions.map(version => `${version.major}.${version.minor}.${version.patch}`)
originVersions ==
    [i \in 1..Len(denoVersions) |->
        Str3(denoVersions[i].major, denoVersions[i].minor, denoVersions[i].patch)]

maxOriginVersion(requiredVersion) ==
    LET m == maxSatisfying(originVersions, requiredVersion)
    IN  IF m = Null THEN requiredVersion ELSE m

\* if (!semver.satisfies(origin, required)) throw new RangeError(...)
\* "pass", "RangeError", or the "TypeError" satisfies raised
ParseErrorAsMismatch(origin, required) ==
    IF satisfies(origin, required) = "yes" THEN "pass" ELSE "RangeError"

SatisfactionCheck(origin, required) ==
    LET s == satisfies(origin, required) IN
    IF s = "TypeError" THEN "TypeError"
    ELSE IF s = "no" THEN "RangeError"
    ELSE "pass"

Advisory(level, key, target) == [level |-> level, key |-> key, target |-> target]

Quiet == [threw |-> FALSE, out |-> <<>>]

\* the two advisory ifs of the simple implementation
AdvisoryCheckSimple(key, origin, required, lg) ==
    IF maxMinor(origin, required) /\ lg
    THEN [threw |-> FALSE, out |-> <<Advisory("warn", key, <<>>)>>]
    ELSE IF maxPatch(origin, required) /\ lg
    THEN [threw |-> FALSE, out |-> <<Advisory("info", key, <<>>)>>]
    ELSE Quiet

\* the two advisory ifs of the catalog-aware implementation; semver.minor
\* and semver.patch raise TypeError on a string that is no version
AdvisoryCheckLogsFirst(key, origin, required, lg) ==
    LET maxOrigin == maxOriginVersion(required) IN
    IF ~lg THEN Quiet
    ELSE IF ~IsVersion(maxOrigin) \/ ~IsVersion(origin)
    THEN [threw |-> TRUE, out |-> <<>>]
    ELSE IF minor(maxOrigin) # minor(origin)
    THEN [threw |-> FALSE, out |-> <<Advisory("warn", key, maxOrigin)>>]
    ELSE IF patch(maxOrigin) # patch(origin)
    THEN [threw |-> FALSE, out |-> <<Advisory("info", key, maxOrigin)>>]
    ELSE Quiet

AdvisoryCheckBoth(key, origin, required, lg) ==
    LET maxOrigin == maxOriginVersion(required) IN
    IF ~IsVersion(maxOrigin) \/ ~IsVersion(origin)
    THEN [threw |-> TRUE, out |-> <<>>]
    ELSE [threw |-> FALSE,
          out |-> (IF minor(maxOrigin) # minor(origin) /\ lg
                   THEN <<Advisory("warn", key, maxOrigin)>> ELSE <<>>)
                  \o (IF patch(maxOrigin) # patch(origin) /\ lg
                      THEN <<Advisory("info", key, maxOrigin)>> ELSE <<>>)]

AdvisoryCheck(key, origin, required, lg) ==
    LET maxOrigin == maxOriginVersion(required) IN
    IF ~IsVersion(maxOrigin) \/ ~IsVersion(origin)
    THEN [threw |-> TRUE, out |-> <<>>]
    ELSE IF minor(maxOrigin) # minor(origin) /\ lg
    THEN [threw |-> FALSE, out |-> <<Advisory("warn", key, maxOrigin)>>]
    ELSE IF patch(maxOrigin) # patch(origin) /\ lg
    THEN [threw |-> FALSE, out |-> <<Advisory("info", key, maxOrigin)>>]
    ELSE Quiet

\* What a call did: how it ended (status "return", "TypeError" or
\* "RangeError", and the key whose step threw), the console output, the keys
\* whose satisfaction check ran, and those that passed it.
Started ==
    [status |-> "return", key |-> "none", out |-> <<>>,
     evaluated |-> <<>>, passed |-> <<>>]

Thrown(acc, kind, key) == [acc EXCEPT !.status = kind, !.key = key]

\* the for-in loop of the simple implementation, from the i-th key on
RECURSIVE LoopSimple(_, _, _, _)
LoopSimple(obj, lg, i, acc) ==
    IF i > Len(Keys) THEN acc
    ELSE
      LET key == Keys[i]
          origin == SplitSlice3Join(Deno_version[key])
      IN
      IF key \notin DOMAIN obj THEN LoopSimple(obj, lg, i + 1, acc)
      ELSE
        LET required == obj[key]
            chk == SatisfactionCheck(origin, required)
            seen == [acc EXCEPT !.evaluated = Append(@, key)]
        IN
        IF chk # "pass" THEN Thrown(seen, chk, key)
        ELSE
          LET adv == AdvisoryCheckSimple(key, origin, required, lg)
              ok == [seen EXCEPT !.passed = Append(@, key), !.out = @ \o adv.out]
          IN  IF adv.threw THEN Thrown(ok, "TypeError", key)
              ELSE LoopSimple(obj, lg, i + 1, ok)

\* the for-in loop of the catalog-aware implementation, from the i-th key on
RECURSIVE Loop(_, _, _, _)
Loop(obj, lg, i, acc) ==
    IF i > Len(Keys) THEN acc
    ELSE
      LET key == Keys[i]
          origin == SplitSlice3Join(Deno_version[key])
      IN
      IF key \notin DOMAIN obj THEN Loop(obj, lg, i + 1, acc)
      ELSE IF key = "typescript" \/ key = "v8" THEN Loop(obj, lg, i + 1, acc)
      ELSE
        LET required == SplitSlice3Join(obj[key])
            chk == SatisfactionCheck(origin, required)
            seen == [acc EXCEPT !.evaluated = Append(@, key)]
        IN
        IF chk # "pass" THEN Thrown(seen, chk, key)
        ELSE
          LET adv == AdvisoryCheck(key, origin, required, lg)
              ok == [seen EXCEPT !.passed = Append(@, key), !.out = @ \o adv.out]
          IN  IF adv.threw THEN Thrown(ok, "TypeError", key)
              ELSE Loop(obj, lg, i + 1, ok)

\* ensureVersion(version, logs) of the simple implementation
ensureVersionSimple(v, lg) ==
    IF Validate(v) = "TypeError" THEN Thrown(Started, "TypeError", "none")
    ELSE LoopSimple(Normalize(v), lg, 1, Started)

\* ensureVersion(version, logs, importer) of the catalog-aware implementation
ensureVersion(v, lg) ==
    IF Validate(v) = "TypeError" THEN Thrown(Started, "TypeError", "none")
    ELSE Loop(Normalize(v), lg, 1, Started)

\* the implementation the process imported
Call(v, lg) ==
    IF module = "simple" THEN ensureVersionSimple(v, lg) ELSE ensureVersion(v, lg)

\* ---------------------------------------------------------------- inputs

\* Deno.version of the running process: the deno entry with three or with
\* four components, the v8 entry with four (as '9.9.115.7')
RunningTriple == <<1, 1, 1>>

RuntimeVersionSets ==
    {[k \in KeySet |->
        IF k = "deno" THEN d
        ELSE IF k = "v8" THEN StrOf(RunningTriple) \o <<DOT, Num(1)>>
        ELSE StrOf(RunningTriple)] :
            d \in {StrOf(RunningTriple), StrOf(RunningTriple) \o <<DOT, Num(1)>>}}

Triples == {<<1, b, c>> : b \in Nums, c \in Nums}

\* releases.text: lines, of which some are "### major.minor.patch" headings
Heading(t) == [heading |-> TRUE, v |-> t]
Prose == [heading |-> FALSE, v |-> <<0, 0, 0>>]

\* releases below, at and above the running version, and a next major
ReleaseTriples ==
    {<<1, b, c>> : b \in Nums, c \in {0, RunningTriple[3], MaxNum}} \cup {<<2, 0, 0>>}

\* release lists, newest first
ReleaseTexts ==
    {<<Prose>>} \cup
    {[i \in 1..Len(ts) |-> Heading(ts[i])] :
        ts \in {q \in UNION {[1..n -> ReleaseTriples] : n \in 0..MaxReleases} :
                   \A i \in 1..(Len(q) - 1) : Lt(q[i + 1], q[i])}}

\* [...releases.text.matchAll(/### (\d+)\.(\d+)\.(\d+)/g)].map(...)
ParseReleases(text) ==
    LET hs == SelectSeq(text, LAMBDA l : l.heading)
    IN  [i \in 1..Len(hs) |->
            [major |-> hs[i].v[1], minor |-> hs[i].v[2], patch |-> hs[i].v[3]]]

Low == {<<1, 0, 0>>, <<1, 1, 0>>}
High == {<<1, MaxNum, 0>>, <<2, 0, 0>>}

\* range expressions a caller may write
RangeStrings ==
    {StrOf(t) : t \in Triples}
    \cup {<<Tok(op)>> \o StrOf(t) : op \in Operators, t \in Triples}
    \cup {Str1(1), Str1(2)} \cup {Str2(1, b) : b \in Nums}
    \cup {Str4(1, b, c, 1) : b \in Nums, c \in Nums}
    \cup {StrOf(t) \o <<OR>> \o StrOf(u) : t \in Triples, u \in High}
    \cup {StrOf(t) \o <<HY>> \o StrOf(u) : t \in Low, u \in Triples}
    \cup {<<Tok(">=")>> \o StrOf(t) \o <<SP, Tok("<")>> \o StrOf(u) : t \in Low, u \in Triples}
    \cup {<<>>, <<JUNK>>, <<Tok(">=")>>, Str3(1, 1, 1) \o <<SP, JUNK>>}

\* range expressions tried for the entries of a mapping
DenoRanges == {Str3(1, 1, 1), <<Tok(">=")>> \o Str3(1, 0, 0), Str3(1, 0, 0), <<JUNK>>}
V8Ranges == {Str4(1, 1, 1, 1), Str3(1, 1, 1), Str3(1, 0, 0), <<JUNK>>}
TypescriptRanges == {Str3(1, 1, 1), Str3(1, 0, 0)}
NodeRanges == {<<Tok(">=")>> \o Str3(1, 0, 0)}

Absent == <<Tok("absent")>>

\* every mapping from some of AllKeys to a range expression tried for the key
Mappings ==
    {[k \in {x \in AllKeys : f[x] # Absent} |-> f[k]] :
        f \in [deno : DenoRanges \cup {Absent}, v8 : V8Ranges \cup {Absent},
               typescript : TypescriptRanges \cup {Absent},
               node : NodeRanges \cup {Absent}]}

Requirements ==
    {Undefined} \cup {StringReq(s) : s \in RangeStrings} \cup {ObjectReq(o) : o \in Mappings}

\* ---------------------------------------------------------------- behaviour

Init ==
    /\ module \in {"simple", "catalog"}
    /\ Deno_version \in RuntimeVersionSets
    /\ \E text \in ReleaseTexts :
          denoVersions = IF module = "catalog" THEN ParseReleases(text) ELSE <<>>
    /\ called = FALSE
    /\ version = Undefined
    /\ logs = TRUE
    /\ result = Started

\* a call of the simple implementation's ensureVersion
CallSimple ==
    /\ module = "simple"
    /\ ~called
    /\ \E v \in Requirements, lg \in BOOLEAN :
          /\ version' = v
          /\ logs' = lg
          /\ result' = ensureVersionSimple(v, lg)
    /\ called' = TRUE
    /\ UNCHANGED <<module, Deno_version, denoVersions>>

\* a call of the catalog-aware implementation's ensureVersion
CallCatalog ==
    /\ module = "catalog"
    /\ ~called
    /\ \E v \in Requirements, lg \in BOOLEAN :
          /\ version' = v
          /\ logs' = lg
          /\ result' = ensureVersion(v, lg)
    /\ called' = TRUE
    /\ UNCHANGED <<module, Deno_version, denoVersions>>

Next == CallSimple \/ CallCatalog

Spec == Init /\ [][Next]_vars

\* ---------------------------------------------------------------- properties

\* the requirement of the last call, as a mapping
Mapping == Normalize(version)

Present(k) == version.kind # "undefined" /\ k \in DOMAIN Mapping

\* the range for key k as the caller wrote it
Written(k) == Mapping[k]

\* the range for key k as the implementation hands it to semver
Handed(k) == IF module = "catalog" THEN SplitSlice3Join(Written(k)) ELSE Written(k)

\* the running version of key k, compared on its first three components
Running(k) == ParseVersion(SplitSlice3Join(Deno_version[k]))

AdvisoriesFor(k) == SelectSeq(result.out, LAMBDA e : e.key = k)

Levels(advs) == [i \in 1..Len(advs) |-> advs[i].level]

InSeq(x, q) == \E i \in 1..Len(q) : q[i] = x

\* a higher minor (patch zero), resp. a higher patch of the running minor,
\* within the scanned span, is in the range written for k
HigherMinorInRange(k) ==
    \E m \in (Running(k)[2] + 1)..MinorScanMax :
        InRange(<<Running(k)[1], m, 0>>, Written(k))

HigherPatchInRange(k) ==
    \E q \in (Running(k)[3] + 1)..PatchScanMax :
        InRange(<<Running(k)[1], Running(k)[2], q>>, Written(k))

\* C1: a requirement with at least one recognized key whose ranges are all
\* well-formed and satisfied by the running versions makes ensureVersion
\* return normally, whatever the logs flag and the release catalog.
C1_SatisfiedReturns ==
    ( /\ called
      /\ \E k \in KeySet : Present(k)
      /\ \A k \in KeySet : Present(k) =>
            ValidRange(Written(k)) /\ InRange(Running(k), Written(k)) )
    => result.status = "return"

Violating(k) == Present(k) /\ ValidRange(Written(k)) /\ ~InRange(Running(k), Written(k))

\* C2: when the running version violates the range of some present key, the
\* call throws a RangeError naming the first such key in the order of
\* Deno.version's keys, and evaluates no key after it.  Stated on the calls
\* that the defects of C7 and C8 leave alone: every range is handed to semver
\* as written, and no TypeError ends the call.
C2_FirstViolationThrown ==
    ( /\ called
      /\ \A k \in KeySet : Present(k) => ValidRange(Written(k)) /\ Handed(k) = Written(k)
      /\ \E k \in KeySet : Violating(k)
      /\ result.status # "TypeError" )
    => LET i == CHOOSE x \in 1..Len(Keys) :
                    Violating(Keys[x]) /\ \A y \in 1..(x - 1) : ~Violating(Keys[y])
       IN  /\ result.status = "RangeError"
           /\ result.key = Keys[i]
           /\ \A j \in (i + 1)..Len(Keys) : ~InSeq(Keys[j], result.evaluated)

\* C3: ensureVersion(undefined) and ensureVersion({}) throw a TypeError before
\* any key is evaluated and before any advisory is written.
C3_UndefinedAndEmptyThrow ==
    (called /\ (version = Undefined \/ version = ObjectReq(NoKeys)))
    => /\ result.status = "TypeError"
       /\ result.key = "none"
       /\ result.evaluated = <<>>
       /\ result.out = <<>>

C3_Witness ==
    /\ called
    /\ module = "catalog"
    /\ version = ObjectReq(NoKeys)
    /\ result.status = "TypeError"

\* C4: a mapping with no key of Deno.version, a non-empty one included, makes
\* the call throw a TypeError instead of returning.
C4_NoRecognizedKeyThrows ==
    (called /\ version.kind = "object" /\ DOMAIN version.obj \cap KeySet = {})
    => result.status = "TypeError"

C6_LogsFlagIrrelevant ==
    called =>
    LET other == Call(version, ~logs) IN
    /\ other.status = result.status
    /\ other.key = result.key
    /\ ~logs => result.out = <<>>

C6_Witness ==
    /\ called
    /\ ~logs
    /\ result.status = "return"
    /\ Call(version, TRUE).out # <<>>

\* C7: for a well-formed range whose version tokens have at most three
\* components, the satisfaction result and the maximum-satisfying release
\* are those of the range as the caller wrote it.
C7_TruncationKeepsMeaning ==
    (called /\ module = "catalog" /\ Present("deno") /\ ValidRange(Written("deno")))
    => /\ result.status = "RangeError" <=> ~InRange(Running("deno"), Written("deno"))
       /\ maxSatisfying(originVersions, Handed("deno"))
             = maxSatisfying(originVersions, Written("deno"))

\* C8: when no release of the catalog satisfies the range (the catalog being
\* empty or unparsable included), the advisory step does nothing: a call whose
\* requirement the running version satisfies writes no advisory and returns.
C8_NoCatalogAnswerIsNoOp ==
    ( /\ called
      /\ module = "catalog"
      /\ Present("deno")
      /\ satisfies(SplitSlice3Join(Deno_version["deno"]), Handed("deno")) = "yes"
      /\ maxSatisfying(originVersions, Handed("deno")) = Null )
    => result.status = "return" /\ result.out = <<>>

\* the maximum-satisfying version M of key k exists
MaxKnown(k) == module = "simple" \/ IsVersion(maxOriginVersion(Handed(k)))

\* M.minor differs from the running minor
MinorDiffers(k) ==
    IF module = "simple" THEN HigherMinorInRange(k)
    ELSE minor(maxOriginVersion(Handed(k))) # Running(k)[2]

\* M.patch differs from the running patch
PatchDiffers(k) ==
    IF module = "simple" THEN HigherPatchInRange(k)
    ELSE patch(maxOriginVersion(Handed(k))) # Running(k)[3]

\* C9: with logs enabled, a key that passed its satisfaction check gets a
\* minor-upgrade warning and nothing else if M.minor differs from the running
\* minor, otherwise a patch-upgrade info if M.patch differs from the running
\* patch, otherwise nothing; so no key ever gets more than one advisory.
C9_OneAdvisoryPerKey ==
    called =>
    \A k \in KeySet :
        /\ Len(AdvisoriesFor(k)) <= 1
        /\ ~InSeq(k, result.passed) => AdvisoriesFor(k) = <<>>
        /\ (InSeq(k, result.passed) /\ logs /\ MaxKnown(k)) =>
              Levels(AdvisoriesFor(k)) =
                 IF MinorDiffers(k) THEN <<"warn">>
                 ELSE IF PatchDiffers(k) THEN <<"info">>
                 ELSE <<>>

C9_Witness ==
    /\ called
    /\ logs
    /\ module = "catalog"
    /\ InSeq("deno", result.passed)
    /\ MaxKnown("deno")
    /\ MinorDiffers("deno")
    /\ PatchDiffers("deno")
    /\ Levels(result.out) = <<"warn">>

\* C10: every advisory written for a key means that a version strictly
\* greater than the running one satisfies the range, the version the advisory
\* names being one; and with the running version at or above every release
\* that satisfies the range, nothing is written.
C10_AdvisoryMeansNewer ==
    called =>
    /\ \A i \in 1..Len(result.out) :
          LET e == result.out[i] IN
          IF module = "catalog"
          THEN /\ IsVersion(e.target)
               /\ Lt(Running(e.key), ParseVersion(e.target))
               /\ InRange(ParseVersion(e.target), Written(e.key))
          ELSE HigherMinorInRange(e.key) \/ HigherPatchInRange(e.key)
    /\ ( /\ module = "catalog"
         /\ Present("deno")
         /\ ValidRange(Written("deno"))
         /\ \A j \in 1..Len(originVersions) :
               InRange(ParseVersion(originVersions[j]), Written("deno"))
                  => Le(ParseVersion(originVersions[j]), Running("deno")) )
       => result.out = <<>>

====
